---- MODULE Spec2Model ----
(***************************************************************************)
(* A model of tools/convert_image_pair.cpp: the tool that reads a manifest *)
(* of image pairs and writes a labels database and an images database,    *)
(* both keyed by the same position-derived key.                            *)
(*                                                                         *)
(* Strings are sequences of one-character strings, so that split, stod    *)
(* and format_int are computed character by character as the code does.   *)
(***************************************************************************)
EXTENDS Integers, Sequences, FiniteSets, TLC

(***************************************************************************)
(* Bounds of the model.                                                    *)
(***************************************************************************)
\* the longest manifest explored, in lines
MaxLines == 3
\* the scaled-down batch size explored beside the code's own 1000
BatchSize == 2
\* the length of the one long manifest explored, more than a batch of 1000
LongManifest == 1500

\* the literal of "++count % 1000 == 0" and "count % 1000 != 0"
DefaultBatch == 1000
\* the width passed to caffe::format_int
KeyWidth == 8

VARIABLES
  argv,                   \* argv after gflags removed the flags; argv[1] is the C argv[0]
  FLAGS_shuffle,
  FLAGS_check_size,
  manifest,               \* the text of the file named by argv[1], line by line
  batch,                  \* the batch size the two write loops commit at
  oracle,                 \* what ReadImagesToDatum can return in this run
  fs,                     \* the databases on disk, by location
  pc,                     \* where main is
  fatal,                  \* why the process died, "none" while it has not
  message,                \* the text of the runtime_error thrown by the reader
  infile,                 \* number of manifest lines std::getline has consumed
  lines,
  line_no,
  count,
  data_size,
  data_size_initialized,
  line_id,
  db1,                    \* location of the labels database handle
  txn1,                   \* puts staged in the labels transaction
  db,                     \* location of the images database handle
  txn,                    \* puts staged in the images transaction
  datums,                 \* what ReadImagesToDatum returned, one entry per call
  ret                     \* the value main returned, -1 while it has not

vars == <<argv, FLAGS_shuffle, FLAGS_check_size, manifest, batch, oracle, fs, pc,
          fatal, message, infile, lines, line_no, count, data_size,
          data_size_initialized, line_id, db1, txn1, db, txn, datums, ret>>

(***************************************************************************)
(* Strings.                                                                *)
(***************************************************************************)
DigitChar == <<"0", "1", "2", "3", "4", "5", "6", "7", "8", "9">>

IsDigit(ch) == \E d \in 1..10 : DigitChar[d] = ch

DigitVal(ch) == (CHOOSE d \in 1..10 : DigitChar[d] = ch) - 1

\* split(str, ' '): one token per delimiter, plus one; the empty string gives
\* one empty token
RECURSIVE SplitFrom(_, _, _, _)
SplitFrom(str, c, i, cur) ==
  IF i > Len(str) THEN <<cur>>
  ELSE IF str[i] = c THEN <<cur>> \o SplitFrom(str, c, i + 1, <<>>)
  ELSE SplitFrom(str, c, i + 1, Append(cur, str[i]))

split(str) == SplitFrom(str, " ", 1, <<>>)

\* std::stod on a token: the longest prefix of decimal digits is converted,
\* no digit at the front throws std::invalid_argument
RECURSIVE StodFrom(_, _, _)
StodFrom(tok, i, acc) ==
  IF i > Len(tok) \/ ~IsDigit(tok[i]) THEN acc
  ELSE StodFrom(tok, i + 1, 10 * acc + DigitVal(tok[i]))

stod(tok) ==
  IF Len(tok) = 0 \/ ~IsDigit(tok[1]) THEN [ok |-> FALSE, val |-> 0]
  ELSE [ok |-> TRUE, val |-> StodFrom(tok, 1, 0)]

RECURSIVE Digits(_)
Digits(n) == IF n < 10 THEN <<DigitChar[n + 1]>>
             ELSE Digits(n \div 10) \o <<DigitChar[(n % 10) + 1]>>

RECURSIVE PadLeft(_, _)
PadLeft(s, w) == IF Len(s) >= w THEN s ELSE PadLeft(<<"0">> \o s, w)

\* caffe::format_int(n, w): decimal, left-padded with zeros to w characters
format_int(n, w) == PadLeft(Digits(n), w)

\* a key_str whose index is not padded
label_key_str_Unpadded(id, rec) ==
  format_int(id, 0) \o <<"_">> \o rec.a \o <<"_">> \o rec.b

\* key_str of the labels loop
label_key_str(id, rec) ==
  format_int(id, KeyWidth) \o <<"_">> \o rec.a \o <<"_">> \o rec.b

\* a key_str that takes the two paths in the other order
image_key_str_Swapped(id, rec) ==
  format_int(id, KeyWidth) \o <<"_">> \o rec.b \o <<"_">> \o rec.a

\* key_str of the images loop
image_key_str(id, rec) ==
  format_int(id, KeyWidth) \o <<"_">> \o rec.a \o <<"_">> \o rec.b

(***************************************************************************)
(* Inputs.                                                                 *)
(***************************************************************************)
Locations == {"X", "Y"}

LineOk1 == <<"a", " ", "b", " ", "1">>
LineOk2 == <<"b", " ", "a", " ", "2">>
LineTwoTokens == <<"a", " ", "b">>
LineFourTokens == <<"a", " ", "b", " ", "1", " ", "2">>
LineEmpty == <<>>
LineNoNumber == <<"a", " ", "b", " ", "x">>

ManifestLines ==
  {LineOk1, LineOk2, LineTwoTokens, LineFourTokens, LineEmpty, LineNoNumber}

Manifests == UNION {[1..n -> ManifestLines] : n \in 0..MaxLines}

\* argv as main sees it after ParseCommandLineFlags: the program name, then
\* up to three positional arguments
Argvs ==
  {<<"convert_image_pair">>, <<"convert_image_pair", "list">>}
    \cup {<<"convert_image_pair", "list", x>> : x \in Locations}
    \cup {<<"convert_image_pair", "list", x, y>> : x \in Locations, y \in Locations}

\* what ReadImagesToDatum can leave in datum_images: a failure, or channels,
\* height, width and a data buffer of some number of bytes
BuildFailed == [status |-> FALSE, channels |-> 0, height |-> 0, width |-> 0, bytes |-> 0]

Built(c, h, w, n) == [status |-> TRUE, channels |-> c, height |-> h, width |-> w, bytes |-> n]

Outcomes ==
  {BuildFailed, Built(1, 1, 1, 1), Built(1, 1, 2, 2), Built(1, 2, 1, 2), Built(1, 1, 2, 1)}

NoStore == [exists |-> FALSE, batches |-> <<>>]

(***************************************************************************)
(* The conditions of main.                                                 *)
(***************************************************************************)
\* if (argc < 3)
TooFewArgs(av) == Len(av) < 3

\* a check that lets lines of more than 3 tokens through
SyntaxError_TooFewOnly(tokens) == Len(tokens) < 3

\* if (tokens.size() != 3)
SyntaxError(tokens) == Len(tokens) # 3

\* a loop that stops one record early
InLoop_SkipsLast(id, recs) == id + 1 < Len(recs)

\* for (...; line_id < lines.size(); ...)
InLoop(id, recs) == id < Len(recs)

\* a batch test that fires one put late
BatchFull_OffByOne(c, b) == c % b = 1

\* if (++count % 1000 == 0), on the incremented count
BatchFull(c, b) == c % b = 0

\* a writer without the commit of the last, partial batch
LastBatch_Never(c, b) == FALSE

\* if (count % 1000 != 0)
LastBatch(c, b) == c % b # 0

\* a loop that does not skip the records whose build failed
Skip_Never(d) == FALSE

\* if (status == false) ... continue
Skip(d) == d.status = FALSE

\* the labels database opened at argv[2]
LabelsArg_Second(av) == av[3]

\* db1->Open(argv[3], db::NEW)
LabelsArg(av) == av[4]

\* db->Open(argv[2], db::NEW)
ImagesArg(av) == av[3]

\* a shuffle that is done whatever the flag
Shuffling_Always(flag) == TRUE

\* if (FLAGS_shuffle)
Shuffling(flag) == flag

\* an expected size taken from the length of the first data buffer
ExpectedSize_Bytes(d) == d.bytes

\* data_size = datum_images.channels() * datum_images.height() * datum_images.width()
ExpectedSize(d) == d.channels * d.height * d.width

\* a size check that lets every payload through
SizeOk_Always(d, expected) == TRUE

\* CHECK_EQ(data.size(), data_size)
SizeOk(d, expected) == d.bytes = expected

\* an images loop that goes on counting from the count of the labels loop
ImageCountStart_Kept(c) == c

\* count = 0, between the two loops
ImageCountStart(c) == 0

\* shuffle(lines.begin(), lines.end()): any permutation
Shuffles(recs) ==
  {[i \in 1..Len(recs) |-> recs[p[i]]] : p \in Permutations(1..Len(recs))}

(***************************************************************************)
(* The state after the flags are parsed.                                   *)
(***************************************************************************)
\* the locals of main and the databases, before main has done anything
Fresh ==
  /\ fs = [l \in Locations |-> NoStore]
  /\ pc = "start"
  /\ fatal = "none"
  /\ message = <<>>
  /\ infile = 0
  /\ lines = <<>>
  /\ line_no = 0
  /\ count = 0
  /\ data_size = 0
  /\ data_size_initialized = FALSE
  /\ line_id = 0
  /\ db1 = "none"
  /\ txn1 = <<>>
  /\ db = "none"
  /\ txn = <<>>
  /\ datums = <<>>
  /\ ret = -1

\* every short manifest, argument list and flag setting, with the batch size
\* of the code and with the scaled-down one
Init ==
  /\ argv \in Argvs
  /\ FLAGS_shuffle \in BOOLEAN
  /\ FLAGS_check_size \in BOOLEAN
  /\ manifest \in Manifests
  /\ batch \in {BatchSize, DefaultBatch}
  /\ oracle = Outcomes
  /\ Fresh

\* one long manifest of well-formed lines whose images all build, written with
\* the batch size of the code
InitLong ==
  /\ argv = <<"convert_image_pair", "list", "X", "Y">>
  /\ FLAGS_shuffle = FALSE
  /\ FLAGS_check_size = FALSE
  /\ manifest = [i \in 1..LongManifest |-> LineOk1]
  /\ batch = DefaultBatch
  /\ oracle = {Built(1, 1, 1, 1)}
  /\ Fresh

(***************************************************************************)
(* main, one action per step.                                              *)
(***************************************************************************)
\* the argc check: usage and return 1, or go on to read argv[1]
ParseArgs ==
  /\ pc = "start"
  /\ IF TooFewArgs(argv)
       THEN pc' = "usage" /\ ret' = 1
       ELSE pc' = "read" /\ ret' = ret
  /\ UNCHANGED <<argv, FLAGS_shuffle, FLAGS_check_size, manifest, batch, oracle, fs,
                 fatal, message, infile, lines, line_no, count, data_size,
                 data_size_initialized, line_id, db1, txn1, db, txn, datums>>

\* a reading loop that passes over the empty lines
ReadLine_SkipsEmpty ==
  /\ pc = "read"
  /\ infile < Len(manifest)
  /\ LET line == manifest[infile + 1]
         tokens == split(line)
     IN /\ infile' = infile + 1
        /\ IF line = <<>>
             THEN UNCHANGED <<message, pc, fatal, lines>>
             ELSE IF SyntaxError(tokens)
             THEN /\ message' = <<"line ", Digits(line_no),
                                  ": syntax error, can't find 3 tokens">>
                  /\ pc' = "aborted"
                  /\ fatal' = "runtime_error"
                  /\ lines' = lines
             ELSE IF ~stod(tokens[3]).ok
               THEN /\ pc' = "aborted"
                    /\ fatal' = "invalid_argument"
                    /\ UNCHANGED <<message, lines>>
               ELSE /\ lines' = Append(lines, [a |-> tokens[1], b |-> tokens[2],
                                               scalar |-> stod(tokens[3]).val])
                    /\ UNCHANGED <<message, pc, fatal>>
  /\ UNCHANGED <<argv, FLAGS_shuffle, FLAGS_check_size, manifest, batch, oracle, fs,
                 line_no, count, data_size, data_size_initialized, line_id,
                 db1, txn1, db, txn, datums, ret>>

\* one turn of while (std::getline(infile, line)): split, check, push_back.
\* line_no is written nowhere in the loop.
ReadLine ==
  /\ pc = "read"
  /\ infile < Len(manifest)
  /\ LET line == manifest[infile + 1]
         tokens == split(line)
     IN /\ infile' = infile + 1
        /\ IF SyntaxError(tokens)
             THEN /\ message' = <<"line ", Digits(line_no),
                                  ": syntax error, can't find 3 tokens">>
                  /\ pc' = "aborted"
                  /\ fatal' = "runtime_error"
                  /\ lines' = lines
             ELSE IF ~stod(tokens[3]).ok
               THEN /\ pc' = "aborted"
                    /\ fatal' = "invalid_argument"
                    /\ UNCHANGED <<message, lines>>
               ELSE /\ lines' = Append(lines, [a |-> tokens[1], b |-> tokens[2],
                                               scalar |-> stod(tokens[3]).val])
                    /\ UNCHANGED <<message, pc, fatal>>
  /\ UNCHANGED <<argv, FLAGS_shuffle, FLAGS_check_size, manifest, batch, oracle, fs,
                 line_no, count, data_size, data_size_initialized, line_id,
                 db1, txn1, db, txn, datums, ret>>

\* getline fails at the end of the file: shuffle if asked to, then set up the
\* counters of the write loops
EndOfFile ==
  /\ pc = "read"
  /\ infile = Len(manifest)
  /\ IF Shuffling(FLAGS_shuffle) THEN lines' \in Shuffles(lines) ELSE lines' = lines
  /\ count' = 0
  /\ data_size' = 0
  /\ data_size_initialized' = FALSE
  /\ pc' = "open_labels"
  /\ UNCHANGED <<argv, FLAGS_shuffle, FLAGS_check_size, manifest, batch, oracle, fs,
                 fatal, message, infile, line_no, line_id, db1, txn1, db, txn,
                 datums, ret>>

\* db1->Open(argv[3], db::NEW) and the first labels transaction. With argc = 3
\* argv[3] is the null pointer that ends argv, and a std::string is built from
\* it: std::logic_error or a fault in strlen, by the library.
OpenLabels ==
  /\ pc = "open_labels"
  /\ IF Len(argv) < 4
       THEN /\ pc' = "aborted"
            /\ fatal' \in {"logic_error", "segv"}
            /\ UNCHANGED <<fs, db1, txn1, line_id>>
       ELSE IF fs[LabelsArg(argv)].exists
         THEN /\ pc' = "aborted"
              /\ fatal' = "open"
              /\ UNCHANGED <<fs, db1, txn1, line_id>>
         ELSE /\ fs' = [fs EXCEPT ![LabelsArg(argv)] = [exists |-> TRUE, batches |-> <<>>]]
              /\ db1' = LabelsArg(argv)
              /\ txn1' = <<>>
              /\ line_id' = 0
              /\ pc' = "labels"
              /\ fatal' = fatal
  /\ UNCHANGED <<argv, FLAGS_shuffle, FLAGS_check_size, manifest, batch, oracle,
                 message, infile, lines, line_no, count, data_size,
                 data_size_initialized, db, txn, datums, ret>>

\* one turn of the labels loop: build datum_label, Put, and Commit when the
\* count reaches a multiple of the batch size. A Commit that fails is fatal.
LabelPut ==
  /\ pc = "labels"
  /\ InLoop(line_id, lines)
  /\ LET rec == lines[line_id + 1]
         key == label_key_str(line_id, rec)
         datum_label == [channels |-> 1, height |-> 1, width |-> 1, bytes |-> 0,
                         float_data |-> <<rec.scalar>>, label |-> line_id,
                         param |-> key]
         staged == Append(txn1, [key |-> key, value |-> datum_label])
     IN /\ count' = count + 1
        /\ IF BatchFull(count + 1, batch)
             THEN \E committed \in BOOLEAN :
                    IF committed
                      THEN /\ fs' = [fs EXCEPT ![db1].batches = Append(@, staged)]
                           /\ txn1' = <<>>
                           /\ line_id' = line_id + 1
                           /\ UNCHANGED <<pc, fatal>>
                      ELSE /\ txn1' = staged
                           /\ pc' = "aborted"
                           /\ fatal' = "commit"
                           /\ UNCHANGED <<fs, line_id>>
             ELSE /\ txn1' = staged
                  /\ line_id' = line_id + 1
                  /\ UNCHANGED <<fs, pc, fatal>>
  /\ UNCHANGED <<argv, FLAGS_shuffle, FLAGS_check_size, manifest, batch, oracle,
                 message, infile, lines, line_no, data_size, data_size_initialized,
                 db1, db, txn, datums, ret>>

\* the labels loop is over: "write the last batch"
LabelLast ==
  /\ pc = "labels"
  /\ ~InLoop(line_id, lines)
  /\ IF LastBatch(count, batch)
       THEN \E committed \in BOOLEAN :
              IF committed
                THEN /\ fs' = [fs EXCEPT ![db1].batches = Append(@, txn1)]
                     /\ txn1' = <<>>
                     /\ pc' = "open_images"
                     /\ fatal' = fatal
                ELSE /\ pc' = "aborted"
                     /\ fatal' = "commit"
                     /\ UNCHANGED <<fs, txn1>>
       ELSE /\ pc' = "open_images"
            /\ UNCHANGED <<fs, txn1, fatal>>
  /\ UNCHANGED <<argv, FLAGS_shuffle, FLAGS_check_size, manifest, batch, oracle,
                 message, infile, lines, line_no, count, data_size,
                 data_size_initialized, line_id, db1, db, txn, datums, ret>>

\* db->Open(argv[2], db::NEW), the first images transaction, count = 0
OpenImages ==
  /\ pc = "open_images"
  /\ IF fs[ImagesArg(argv)].exists
       THEN /\ pc' = "aborted"
            /\ fatal' = "open"
            /\ UNCHANGED <<fs, db, txn, line_id, count>>
       ELSE /\ fs' = [fs EXCEPT ![ImagesArg(argv)] = [exists |-> TRUE, batches |-> <<>>]]
            /\ db' = ImagesArg(argv)
            /\ txn' = <<>>
            /\ count' = ImageCountStart(count)
            /\ line_id' = 0
            /\ pc' = "images"
            /\ fatal' = fatal
  /\ UNCHANGED <<argv, FLAGS_shuffle, FLAGS_check_size, manifest, batch, oracle,
                 message, infile, lines, line_no, data_size, data_size_initialized,
                 db1, txn1, datums, ret>>

\* one turn of the images loop: ReadImagesToDatum, skip on failure, the size
\* check, Put, and Commit when the count reaches a multiple of the batch size
ImagePut ==
  /\ pc = "images"
  /\ InLoop(line_id, lines)
  /\ \E built \in oracle :
       LET rec == lines[line_id + 1]
           key == image_key_str(line_id, rec)
           datum_images == [channels |-> built.channels, height |-> built.height,
                            width |-> built.width, bytes |-> built.bytes,
                            label |-> line_id, param |-> key]
           staged == Append(txn, [key |-> key, value |-> datum_images])
       IN /\ datums' = Append(datums, built)
          /\ IF Skip(built)
               THEN /\ line_id' = line_id + 1
                    /\ UNCHANGED <<fs, txn, count, data_size, data_size_initialized,
                                   pc, fatal>>
             ELSE IF FLAGS_check_size /\ data_size_initialized
                     /\ ~SizeOk(built, data_size)
               THEN /\ pc' = "aborted"
                    /\ fatal' = "check_size"
                    /\ UNCHANGED <<fs, txn, count, data_size, data_size_initialized,
                                   line_id>>
             ELSE /\ IF FLAGS_check_size /\ ~data_size_initialized
                       THEN /\ data_size' = ExpectedSize(built)
                            /\ data_size_initialized' = TRUE
                       ELSE UNCHANGED <<data_size, data_size_initialized>>
                  /\ count' = count + 1
                  /\ IF BatchFull(count + 1, batch)
                       THEN \E committed \in BOOLEAN :
                              IF committed
                                THEN /\ fs' = [fs EXCEPT ![db].batches = Append(@, staged)]
                                     /\ txn' = <<>>
                                     /\ line_id' = line_id + 1
                                     /\ UNCHANGED <<pc, fatal>>
                                ELSE /\ txn' = staged
                                     /\ pc' = "aborted"
                                     /\ fatal' = "commit"
                                     /\ UNCHANGED <<fs, line_id>>
                       ELSE /\ txn' = staged
                            /\ line_id' = line_id + 1
                            /\ UNCHANGED <<fs, pc, fatal>>
  /\ UNCHANGED <<argv, FLAGS_shuffle, FLAGS_check_size, manifest, batch, oracle,
                 message, infile, lines, line_no, db1, txn1, db, ret>>

\* the images loop is over: "write the last batch", return 0
ImageLast ==
  /\ pc = "images"
  /\ ~InLoop(line_id, lines)
  /\ IF LastBatch(count, batch)
       THEN \E committed \in BOOLEAN :
              IF committed
                THEN /\ fs' = [fs EXCEPT ![db].batches = Append(@, txn)]
                     /\ txn' = <<>>
                     /\ pc' = "done"
                     /\ ret' = 0
                     /\ fatal' = fatal
                ELSE /\ pc' = "aborted"
                     /\ fatal' = "commit"
                     /\ UNCHANGED <<fs, txn, ret>>
       ELSE /\ pc' = "done"
            /\ ret' = 0
            /\ UNCHANGED <<fs, txn, fatal>>
  /\ UNCHANGED <<argv, FLAGS_shuffle, FLAGS_check_size, manifest, batch, oracle,
                 message, infile, lines, line_no, count, data_size,
                 data_size_initialized, line_id, db1, txn1, db, datums>>

Next ==
  \/ ParseArgs
  \/ ReadLine
  \/ EndOfFile
  \/ OpenLabels
  \/ LabelPut
  \/ LabelLast
  \/ OpenImages
  \/ ImagePut
  \/ ImageLast

Spec == Init /\ [][Next]_vars

\* the run over the long manifest
SpecLong == InitLong /\ [][Next]_vars

(***************************************************************************)
(* The keys alone: the key_str of two turns of the write loops, at indices *)
(* up to and beyond the 8 digits of the padding, over paths that hold the  *)
(* characters of the index and the separator.                              *)
(***************************************************************************)
RECURSIVE Pow10(_)
Pow10(n) == IF n = 0 THEN 1 ELSE 10 * Pow10(n - 1)

KeyIndices ==
  {0, 1, 9, 10, Pow10(KeyWidth) - 1, Pow10(KeyWidth), Pow10(KeyWidth) + 1,
   2 * Pow10(KeyWidth)}

KeyPaths == {<<>>, <<"a">>, <<"b">>, <<"0">>, <<"_">>}

InitKeys ==
  /\ argv = <<"convert_image_pair", "list", "X", "Y">>
  /\ FLAGS_shuffle = FALSE
  /\ FLAGS_check_size = FALSE
  /\ manifest = <<>>
  /\ batch = DefaultBatch
  /\ oracle = Outcomes
  /\ Fresh

\* the key_str of one turn of each loop, at a line_id above the last one
KeyPut ==
  /\ pc = "start"
  /\ Len(txn1) < 2
  /\ \E id \in KeyIndices, a \in KeyPaths, b \in KeyPaths :
       LET rec == [a |-> a, b |-> b, scalar |-> 0]
       IN /\ txn1 = <<>> \/ id > line_id
          /\ line_id' = id
          /\ txn1' = Append(txn1, [key |-> label_key_str(id, rec),
                                    value |-> [label |-> id]])
          /\ txn' = Append(txn, [key |-> image_key_str(id, rec),
                                  value |-> [label |-> id]])
  /\ UNCHANGED <<argv, FLAGS_shuffle, FLAGS_check_size, manifest, batch, oracle, fs,
                 pc, fatal, message, infile, lines, line_no, count, data_size,
                 data_size_initialized, db1, db, datums, ret>>

NextKeys == KeyPut

SpecKeys == InitKeys /\ [][NextKeys]_vars

(***************************************************************************)
(* What the properties speak of.                                           *)
(***************************************************************************)
RECURSIVE Flatten(_)
Flatten(bs) == IF bs = <<>> THEN <<>> ELSE Head(bs) \o Flatten(Tail(bs))

\* the entries committed to the labels / images database so far
LabelsCommitted == IF db1 = "none" THEN <<>> ELSE Flatten(fs[db1].batches)

ImagesCommitted == IF db = "none" THEN <<>> ELSE Flatten(fs[db].batches)

\* every Put issued so far, committed or still staged
LabelsPut == LabelsCommitted \o txn1

ImagesPut == ImagesCommitted \o txn

Range(seq) == {seq[i] : i \in 1..Len(seq)}

Keys(entries) == {e.key : e \in Range(entries)}

\* indices (0-based) of the records whose image build succeeded so far
BuiltIds == {i \in 0..(Len(datums) - 1) : datums[i + 1].status}

TokenCount(line) == Len(split(line))

Malformed == \E k \in 1..Len(manifest) : TokenCount(manifest[k]) # 3

IsLabelPayload(e) == "float_data" \in DOMAIN e.value

Ceil(p, b) == (p + b - 1) \div b

\* the commits of one store are those of a writer that received p puts
BatchesOf(bs, p, b) ==
  /\ Len(bs) = Ceil(p, b)
  /\ \A k \in 1..Len(bs) :
       /\ Len(bs[k]) > 0
       /\ Len(bs[k]) = IF k < Len(bs) THEN b ELSE p - b * (Len(bs) - 1)

(***************************************************************************)
(* C1. A run that returns normally has committed exactly one label payload *)
(* per manifest record, one for each index 0..N-1.                         *)
(***************************************************************************)
C1_OneLabelPerRecord ==
  pc = "done" =>
    /\ ~Malformed
    /\ Len(LabelsCommitted) = Len(manifest)
    /\ \A i \in 0..(Len(manifest) - 1) :
         Cardinality({j \in 1..Len(LabelsCommitted) :
                        LabelsCommitted[j].value.label = i}) = 1

C1_Witness ==
  /\ pc = "done"
  /\ Len(manifest) > batch
  /\ BuildFailed \in Range(datums)
  /\ Len(LabelsCommitted) = Len(manifest)

(***************************************************************************)
(* C2. At normal termination nothing is left staged in either store: the   *)
(* committed entries are all the puts, as many as the records for the      *)
(* labels and as many as the successful builds for the images.             *)
(***************************************************************************)
C2_NoStagedWriteDropped ==
  pc = "done" =>
    /\ txn1 = <<>>
    /\ txn = <<>>
    /\ Len(LabelsCommitted) = Len(lines)
    /\ Len(ImagesCommitted) = Cardinality(BuiltIds)

C2_Witness ==
  /\ pc = "done"
  /\ Len(lines) > 0
  /\ Len(lines) % batch = 0
  /\ Cardinality(BuiltIds) % batch # 0
  /\ Len(ImagesCommitted) = Cardinality(BuiltIds)

C2_WitnessZero ==
  /\ pc = "done"
  /\ Len(lines) > 0
  /\ BuiltIds = {}

(***************************************************************************)
(* C3. Every image entry is stored under the key of the label entry of the *)
(* same index, both carry that index as label, the j-th label put is record*)
(* j-1 of the final order, and the order never changes once the write      *)
(* loops have begun.                                                       *)
(***************************************************************************)
C3_KeysAligned ==
  /\ \A j \in 1..Len(LabelsPut) :
       /\ LabelsPut[j].value.label = j - 1
       /\ LabelsPut[j].value.param = LabelsPut[j].key
       /\ LabelsPut[j].key =
            format_int(j - 1, KeyWidth) \o <<"_">> \o lines[j].a \o <<"_">> \o lines[j].b
  /\ \A e \in Range(ImagesPut) :
       /\ e.value.param = e.key
       /\ e.value.label \in 0..(Len(LabelsCommitted) - 1)
       /\ LabelsCommitted[e.value.label + 1].key = e.key
       /\ LabelsCommitted[e.value.label + 1].value.label = e.value.label

C3_OrderFixed ==
  pc \in {"open_labels", "labels", "open_images", "images"} => lines' = lines

C3_SameKeyBothStores == []C3_KeysAligned /\ [][C3_OrderFixed]_vars

C3_Witness ==
  /\ pc = "done"
  /\ FLAGS_shuffle
  /\ Len(manifest) = 2
  /\ manifest[1] = LineOk1
  /\ Len(lines) = 2
  /\ lines[1].scalar = 2
  /\ Len(ImagesCommitted) = 2

(***************************************************************************)
(* C4. With a manifest line of other than 3 tokens no store is ever        *)
(* opened and nothing is put or committed; a run that gets to read the     *)
(* manifest dies in the reader.                                            *)
(***************************************************************************)
C4_MalformedNoWrites ==
  Malformed =>
    /\ pc \in {"start", "usage", "read", "aborted"}
    /\ pc = "aborted" => fatal \in {"runtime_error", "invalid_argument"}
    /\ \A l \in Locations : ~fs[l].exists
    /\ db1 = "none" /\ db = "none"
    /\ txn1 = <<>> /\ txn = <<>>

C4_Witness ==
  /\ pc = "aborted"
  /\ fatal = "runtime_error"
  /\ infile = 3
  /\ Len(lines) = 2
  /\ TokenCount(manifest[3]) = 4

(***************************************************************************)
(* C5. The error of the reader carries the 0-based number of the line that *)
(* has not 3 tokens.                                                       *)
(***************************************************************************)
C5_ErrorCarriesLineNumber ==
  (pc = "aborted" /\ fatal = "runtime_error") => message[2] = Digits(infile - 1)

(***************************************************************************)
(* C6. With check_size on, a built payload whose byte length differs from  *)
(* that of the first built payload ends the run at that record, unput.     *)
(***************************************************************************)
FirstBuilt == CHOOSE i \in BuiltIds : \A j \in BuiltIds : i <= j

C6_SizeMismatchAborts ==
  \A i \in BuiltIds :
    (FLAGS_check_size /\ datums[i + 1].bytes # datums[FirstBuilt + 1].bytes) =>
      /\ pc = "aborted"
      /\ fatal = "check_size"
      /\ i = Len(datums) - 1
      /\ \A e \in Range(ImagesPut) : e.value.label # i
      /\ \A k \in 1..Len(fs[db].batches) : Len(fs[db].batches[k]) = batch

(***************************************************************************)
(* C7. A store that received P puts holds ceil(P/B) commits, each of B     *)
(* puts but the last, which holds the rest, and none empty.                *)
(***************************************************************************)
C7_CommitCount ==
  /\ pc \in {"open_images", "images", "done"} =>
       BatchesOf(fs[db1].batches, Len(lines), batch)
  /\ pc = "done" => BatchesOf(fs[db].batches, Cardinality(BuiltIds), batch)
  /\ (pc = "done" /\ batch = 2 /\ Len(lines) = 3) =>
       /\ <<Len(fs[db1].batches[1]), Len(fs[db1].batches[2])>> = <<2, 1>>
       /\ Len(fs[db1].batches) = 2

C7_Witness ==
  /\ pc = "done"
  /\ batch = 2
  /\ Len(lines) = 3
  /\ Len(fs[db1].batches) = 2
  /\ Len(fs[db1].batches[1]) = 2
  /\ Len(fs[db1].batches[2]) = 1
  /\ Len(fs[db].batches) = 2

\* C7 on the long manifest, under SpecLong: 1500 records at the batch size of
\* 1000 are committed as 1000, then 500, in both stores
C7_LongRun ==
  (pc = "done" /\ batch = 1000 /\ Len(lines) = 1500) =>
    /\ Len(fs[db1].batches) = 2 /\ Len(fs[db].batches) = 2
    /\ <<Len(fs[db1].batches[1]), Len(fs[db1].batches[2])>> = <<1000, 500>>
    /\ <<Len(fs[db].batches[1]), Len(fs[db].batches[2])>> = <<1000, 500>>

(***************************************************************************)
(* C8. A failed build is not fatal: that turn of the images loop puts      *)
(* nothing, leaves the counter, and goes to the next record, whose label   *)
(* is in the labels store; at normal termination the images store holds    *)
(* exactly the keys of the records that were built.                        *)
(***************************************************************************)
C8_FailedTurn ==
  (pc = "images" /\ Len(datums') = Len(datums) + 1
     /\ ~datums'[Len(datums')].status) =>
    /\ pc' = "images"
    /\ fatal' = "none"
    /\ line_id' = line_id + 1
    /\ count' = count
    /\ txn' = txn
    /\ fs' = fs
    /\ \E e \in Range(LabelsCommitted) : e.value.label = line_id

C8_ImageKeys ==
  pc = "done" =>
    /\ Keys(ImagesCommitted) =
         {format_int(i, KeyWidth) \o <<"_">> \o lines[i + 1].a \o <<"_">> \o lines[i + 1].b :
            i \in BuiltIds}
    /\ Len(ImagesCommitted) = Cardinality(BuiltIds)

C8_BuildFailureSkipped == []C8_ImageKeys /\ [][C8_FailedTurn]_vars

C8_Witness ==
  /\ pc = "done"
  /\ Len(datums) = 3
  /\ ~datums[2].status
  /\ datums[1].status /\ datums[3].status
  /\ Len(ImagesCommitted) = 2

(***************************************************************************)
(* C9. With fewer than three positional arguments the program shows the    *)
(* usage and returns non-zero, not reading the manifest, not opening a     *)
(* store, not reading an argument that is not there.                       *)
(***************************************************************************)
C9_UsageOnMissingArgs ==
  Len(argv) < 4 =>
    /\ pc \in {"start", "usage"}
    /\ pc = "usage" => ret = 1
    /\ infile = 0

(***************************************************************************)
(* C10. As claimed: label payloads go only to the store at the second      *)
(* positional argument, image payloads only to the store at the third.     *)
(***************************************************************************)
C10_LabelsSecondImagesThird ==
  \A l \in Locations : \A e \in Range(Flatten(fs[l].batches)) :
    IF IsLabelPayload(e) THEN l = argv[3] ELSE l = argv[4]

(***************************************************************************)
(* C10, amended. Label payloads go only to the store at the third          *)
(* positional argument, image payloads only to the store at the second.    *)
(***************************************************************************)
C10_LabelsThirdImagesSecond ==
  /\ db1 # "none" => db1 = argv[4]
  /\ db # "none" => db = argv[3]
  /\ \A l \in Locations : \A e \in Range(Flatten(fs[l].batches)) :
       IF IsLabelPayload(e) THEN l = argv[4] ELSE l = argv[3]

C10_Witness ==
  /\ pc = "done"
  /\ argv[3] = "X" /\ argv[4] = "Y"
  /\ \E e \in Range(Flatten(fs["Y"].batches)) : IsLabelPayload(e)
  /\ \E e \in Range(Flatten(fs["X"].batches)) : ~IsLabelPayload(e)

(***************************************************************************)
(* C11. Without the shuffle, the index in the key of every entry, which is *)
(* also its label, is the 0-based position in the manifest of the line the *)
(* entry was made from.                                                    *)
(***************************************************************************)
KeyIndex(key) == StodFrom(SubSeq(key, 1, KeyWidth), 1, 0)

C11_IndexIsLinePosition ==
  ~FLAGS_shuffle =>
    \A e \in Range(LabelsPut) \cup Range(ImagesPut) :
      LET k == e.value.label
      IN /\ k \in 0..(Len(manifest) - 1)
         /\ KeyIndex(e.key) = k
         /\ e.key = format_int(k, KeyWidth) \o <<"_">> \o split(manifest[k + 1])[1]
                      \o <<"_">> \o split(manifest[k + 1])[2]
         /\ IsLabelPayload(e) =>
              e.value.float_data = <<stod(split(manifest[k + 1])[3]).val>>

C11_Witness ==
  /\ ~FLAGS_shuffle
  /\ pc = "done"
  /\ Len(manifest) = 3
  /\ manifest[1] # manifest[2]
  /\ manifest[2] # manifest[3]
  /\ Len(LabelsCommitted) = 3
  /\ Len(ImagesCommitted) >= 2

(***************************************************************************)
(* C12. The two passes do not interleave: nothing touches the images       *)
(* store, and no image is built, while the labels are being written; once  *)
(* the images store is being opened or written the labels are all          *)
(* committed and the labels store is touched no more.                      *)
(***************************************************************************)
C12_LabelsComplete ==
  (db # "none" \/ datums # <<>> \/ txn # <<>> \/ pc \in {"open_images", "images", "done"}) =>
    /\ db1 # "none"
    /\ txn1 = <<>>
    /\ Len(LabelsCommitted) = Len(lines)

C12_LabelStep ==
  pc \in {"start", "read", "open_labels", "labels"} =>
    /\ db' = "none"
    /\ txn' = <<>>
    /\ datums' = <<>>
    /\ \A l \in Locations : (Len(argv) < 4 \/ l # LabelsArg(argv)) => fs'[l] = NoStore

C12_ImageStep ==
  pc \in {"open_images", "images"} =>
    /\ db1' = db1
    /\ txn1' = txn1
    /\ fs'[db1] = fs[db1]

C12_PassesInOrder ==
  []C12_LabelsComplete /\ [][C12_LabelStep /\ C12_ImageStep]_vars

C12_Witness ==
  /\ pc = "images"
  /\ Len(lines) = 3
  /\ Len(LabelsCommitted) = 3
  /\ Len(ImagesPut) >= 1
  /\ line_id < 3

(***************************************************************************)
(* C13, as claimed. For indices i < j the keys are distinct and key(i)     *)
(* comes before key(j) in byte order, for every index and all paths.       *)
(***************************************************************************)
ByteOf(ch) ==
  CASE ch = " " -> 32
    [] IsDigit(ch) -> 48 + DigitVal(ch)
    [] ch = "_" -> 95
    [] ch = "a" -> 97
    [] ch = "b" -> 98
    [] ch = "x" -> 120

\* s before t as the stores compare keys: byte by byte, a prefix first
RECURSIVE LexLess(_, _)
LexLess(s, t) ==
  IF t = <<>> THEN FALSE
  ELSE IF s = <<>> THEN TRUE
  ELSE IF ByteOf(Head(s)) # ByteOf(Head(t)) THEN ByteOf(Head(s)) < ByteOf(Head(t))
  ELSE LexLess(Tail(s), Tail(t))

KeysOrdered(puts) ==
  \A p \in 1..Len(puts) : \A q \in 1..Len(puts) :
    puts[p].value.label < puts[q].value.label =>
      /\ puts[p].key # puts[q].key
      /\ LexLess(puts[p].key, puts[q].key)

C13_KeyOrderEveryIndex == KeysOrdered(txn1) /\ KeysOrdered(txn)

(***************************************************************************)
(* C13, amended. For indices i < j the keys are distinct, and key(i) comes *)
(* before key(j) in byte order when j is below 10^8, for all paths.        *)
(***************************************************************************)
KeysOrderedWithinWidth(puts) ==
  \A p \in 1..Len(puts) : \A q \in 1..Len(puts) :
    puts[p].value.label < puts[q].value.label =>
      /\ puts[p].key # puts[q].key
      /\ puts[q].value.label < Pow10(KeyWidth) => LexLess(puts[p].key, puts[q].key)

C13_KeyOrderWithinWidth ==
  KeysOrderedWithinWidth(txn1) /\ KeysOrderedWithinWidth(txn)

C13_Witness ==
  /\ Len(txn1) = 2
  /\ txn1[1].key = <<"0", "0", "0", "0", "0", "0", "0", "9", "_", "b", "_", "b">>
  /\ txn1[2].key = <<"0", "0", "0", "0", "0", "0", "1", "0", "_", "a", "_", "a">>
  /\ txn = txn1
  /\ LexLess(txn1[1].key, txn1[2].key)

(***************************************************************************)
(* C14, as claimed. With check_size on, every image payload put has the    *)
(* channels, height and width of the first payload built.                  *)
(***************************************************************************)
Profile(d) == <<d.channels, d.height, d.width>>

C14_SameProfile ==
  FLAGS_check_size =>
    \A e \in Range(ImagesPut) : Profile(e.value) = Profile(datums[FirstBuilt + 1])

(***************************************************************************)
(* C14, amended. With check_size on, every image payload put after the     *)
(* first payload built has as many data bytes as the product of channels,  *)
(* height and width of that first payload, and a later payload of another  *)
(* byte length is never put; the three dimensions are not compared.        *)
(***************************************************************************)
FirstProduct ==
  datums[FirstBuilt + 1].channels * datums[FirstBuilt + 1].height
    * datums[FirstBuilt + 1].width

C14_SameByteLength ==
  FLAGS_check_size =>
    /\ \A e \in Range(ImagesPut) :
         e.value.label > FirstBuilt => e.value.bytes = FirstProduct
    /\ \A i \in BuiltIds :
         (i > FirstBuilt /\ datums[i + 1].bytes # FirstProduct) =>
           \A e \in Range(ImagesPut) : e.value.label # i

C14_Witness ==
  /\ FLAGS_check_size
  /\ pc = "done"
  /\ \E e \in Range(ImagesCommitted) : \E f \in Range(ImagesCommitted) :
       /\ e.value.label < f.value.label
       /\ Profile(e.value) # Profile(f.value)
       /\ f.value.bytes = e.value.channels * e.value.height * e.value.width

(***************************************************************************)
(* C15. With check_size on, the expected size is set once, by the first    *)
(* record that is built, to channels * height * width, and never changes;  *)
(* every payload built later is put only if its byte length equals it and  *)
(* ends the run otherwise. With check_size off nothing is compared.        *)
(***************************************************************************)
C15_ExpectedSize ==
  /\ data_size_initialized <=> (FLAGS_check_size /\ BuiltIds # {})
  /\ data_size_initialized => data_size = FirstProduct
  /\ ~data_size_initialized => data_size = 0
  /\ FLAGS_check_size =>
       \A i \in BuiltIds :
         i > FirstBuilt =>
           IF datums[i + 1].bytes = data_size
             THEN \E e \in Range(ImagesPut) : e.value.label = i
             ELSE /\ pc = "aborted" /\ fatal = "check_size"
                  /\ i = Len(datums) - 1
                  /\ \A e \in Range(ImagesPut) : e.value.label # i
  /\ ~FLAGS_check_size =>
       /\ fatal # "check_size"
       /\ \A i \in BuiltIds : \E e \in Range(ImagesPut) :
            e.value.label = i /\ e.value.bytes = datums[i + 1].bytes

C15_SetOnce ==
  data_size_initialized => (data_size_initialized' /\ data_size' = data_size)

C15_SizeSetOnceAndCompared == []C15_ExpectedSize /\ [][C15_SetOnce]_vars

C15_Witness ==
  /\ FLAGS_check_size
  /\ pc = "done"
  /\ Len(datums) = 3
  /\ ~datums[1].status
  /\ datums[2] = Built(1, 1, 2, 2)
  /\ datums[3] = Built(1, 2, 1, 2)
  /\ data_size = 2
  /\ Len(ImagesCommitted) = 2

(***************************************************************************)
(* C16, as claimed. An empty line is not split and does not by itself      *)
(* cause the error of the reader: a manifest whose other lines are all     *)
(* well formed is read without that error.                                 *)
(***************************************************************************)
WellFormedLine(line) == TokenCount(line) = 3 /\ stod(split(line)[3]).ok

C16_EmptyLineTolerated ==
  (\A k \in 1..Len(manifest) : manifest[k] = <<>> \/ WellFormedLine(manifest[k])) =>
    fatal # "runtime_error"

(***************************************************************************)
(* C16, amended. Every line read is split and validated, the empty ones    *)
(* too: an empty line gives one empty token, and the reader dies on it     *)
(* with its syntax error, keeping no record of it.                         *)
(***************************************************************************)
C16_EmptyLineRejected ==
  \A k \in 1..infile :
    manifest[k] = <<>> =>
      /\ split(manifest[k]) = <<<<>>>>
      /\ k = infile
      /\ pc = "aborted"
      /\ fatal = "runtime_error"
      /\ message # <<>>
      /\ Len(lines) = k - 1

C16_Witness ==
  /\ pc = "aborted"
  /\ fatal = "runtime_error"
  /\ infile = 3
  /\ Len(manifest) = 3
  /\ manifest[3] = <<>>
  /\ WellFormedLine(manifest[1]) /\ WellFormedLine(manifest[2])
  /\ Len(lines) = 2

(***************************************************************************)
(* C17. Each writer commits by its own number of puts: in the labels loop  *)
(* the counter is the number of label puts, in the images loop it is the   *)
(* number of image puts, whatever the number of label puts was, and a      *)
(* store has one commit per full batch of its own puts.                    *)
(***************************************************************************)
C17_IndependentCounters ==
  /\ (db1 # "none" /\ pc \in {"labels", "aborted"} /\ db = "none" /\ fatal # "open") =>
       count = Len(LabelsPut)
  /\ db # "none" => count = Len(ImagesPut)
  /\ pc = "labels" =>
       /\ Len(fs[db1].batches) = Len(LabelsPut) \div batch
       /\ Len(txn1) = Len(LabelsPut) % batch
  /\ pc = "images" =>
       /\ Len(fs[db].batches) = Len(ImagesPut) \div batch
       /\ Len(txn) = Len(ImagesPut) % batch
       /\ Len(fs[db1].batches) = Ceil(Len(lines), batch)

C17_Witness ==
  /\ pc = "images"
  /\ batch = 2
  /\ Len(lines) = 3
  /\ Len(fs[db1].batches) = 2
  /\ count = 1
  /\ Len(ImagesPut) = 1
  /\ Len(fs[db].batches) = 0
  /\ line_id = 2

(***************************************************************************)
(* C18. In every state, a fatal end included, each key committed to the    *)
(* images store is a key committed to the labels store.                    *)
(***************************************************************************)
C18_ImageKeysHaveLabels == Keys(ImagesCommitted) \subseteq Keys(LabelsCommitted)

C18_Witness ==
  /\ pc = "aborted"
  /\ fatal = "check_size"
  /\ Len(ImagesCommitted) = 2
  /\ Len(LabelsCommitted) = 3
  /\ Keys(ImagesCommitted) # Keys(LabelsCommitted)

(***************************************************************************)
(* C19. Once the labels loop is over, whatever happens in the images loop, *)
(* the labels store holds what the final record order alone determines:    *)
(* for record j, in order, its key and its label payload. Runs over the    *)
(* same order hence commit the same labels, whatever check_size is and     *)
(* whatever the builds return.                                             *)
(***************************************************************************)
LabelEntryOf(j, rec) ==
  LET key == format_int(j, KeyWidth) \o <<"_">> \o rec.a \o <<"_">> \o rec.b
  IN [key |-> key,
      value |-> [channels |-> 1, height |-> 1, width |-> 1, bytes |-> 0,
                 float_data |-> <<rec.scalar>>, label |-> j, param |-> key]]

LabelStoreOf(recs) == [j \in 1..Len(recs) |-> LabelEntryOf(j - 1, recs[j])]

LabelPassOver ==
  \/ pc \in {"open_images", "images", "done"}
  \/ /\ pc = "aborted"
     /\ db1 # "none"
     /\ db # "none" \/ fatal \in {"check_size", "open"}

C19_LabelsFromOrderAlone == LabelPassOver => LabelsCommitted = LabelStoreOf(lines)

C19_Witness ==
  /\ pc = "aborted"
  /\ fatal = "commit"
  /\ db # "none"
  /\ FLAGS_check_size
  /\ BuildFailed \in Range(datums)
  /\ Len(lines) = 3
  /\ LabelsCommitted = LabelStoreOf(lines)

====
